---------------------------- MODULE Spec2Model ----------------------------
(***************************************************************************)
(* DebugAgent: the driver loop (agent/agent.py), the tool dispatcher       *)
(* (agent/tools/__init__.py), the repository and log handlers              *)
(* (agent/tools/github.py, agent/tools/gcp_logging.py) and the process     *)
(* entry point (agent/main.py).                                            *)
(*                                                                         *)
(* A text (a Python str) is a sequence of tokens.  A token is a run of     *)
(* characters that JSON encoding leaves alone, or one of the two           *)
(* characters it escapes: the double quote DQ and the backslash BS.        *)
(* None is the absence of a field: a message whose content is None is a    *)
(* record without a content field.                                         *)
(***************************************************************************)
EXTENDS Integers, Sequences, FiniteSets, TLC

(***************************************************************************)
(* Bounds of the model.                                                    *)
(***************************************************************************)
\* largest value of --max-iterations that is explored
MaxBound == 2
\* largest number of tool-call requests the model issues over one run
MaxCalls == 3
\* largest number of calls of the operating system one process makes for
\* its credential file
MaxOsCalls == 4

(***************************************************************************)
(* Texts and their JSON encoding (json.dumps of a str, ensure_ascii).      *)
(***************************************************************************)
DQ == "\""
BS == "\\"

RECURSIVE Escape(_)
Escape(t) ==
    IF t = <<>> THEN <<>>
    ELSE IF Head(t) \in {DQ, BS} THEN <<BS, Head(t)>> \o Escape(Tail(t))
    ELSE <<Head(t)>> \o Escape(Tail(t))

\* the inverse reading of a JSON string body, as json.loads does it
RECURSIVE Unescape(_)
Unescape(t) ==
    IF t = <<>> THEN <<>>
    ELSE IF Head(t) = BS /\ Len(t) >= 2 THEN <<t[2]>> \o Unescape(Tail(Tail(t)))
    ELSE <<Head(t)>> \o Unescape(Tail(t))

\* a JSON string body is well formed when every DQ and BS in it is escaped
RECURSIVE WellEscaped(_)
WellEscaped(t) ==
    IF t = <<>> THEN TRUE
    ELSE IF Head(t) = BS THEN Len(t) >= 2 /\ t[2] \in {DQ, BS} /\ WellEscaped(Tail(Tail(t)))
    ELSE Head(t) # DQ /\ WellEscaped(Tail(t))

JsonString(t) == <<DQ>> \o Escape(t) \o <<DQ>>

\* json.dumps({"error": msg})
ErrorOpen == <<"{", DQ, "error", DQ, ": ", DQ>>
ErrorClose == <<DQ, "}">>
json_dumps_error(msg) == ErrorOpen \o Escape(msg) \o ErrorClose

\* json.dumps({"success": True, key: value, ...}); ms[i] = <<key, encoded value>>
RECURSIVE JsonMembers(_)
JsonMembers(ms) ==
    IF ms = <<>> THEN <<>>
    ELSE <<", ", DQ, ms[1][1], DQ, ": ">> \o ms[1][2] \o JsonMembers(Tail(ms))
json_dumps_success(ms) ==
    <<"{", DQ, "success", DQ, ": true">> \o JsonMembers(ms) \o <<"}">>

\* what a reader of a tool result finds: the text is the JSON object
\* {"error": m} for some text m, and then m
IsErrorPayload(t) ==
    /\ Len(t) >= Len(ErrorOpen) + Len(ErrorClose)
    /\ SubSeq(t, 1, Len(ErrorOpen)) = ErrorOpen
    /\ SubSeq(t, Len(t) - Len(ErrorClose) + 1, Len(t)) = ErrorClose
    /\ WellEscaped(SubSeq(t, Len(ErrorOpen) + 1, Len(t) - Len(ErrorClose)))
ErrorOf(t) == Unescape(SubSeq(t, Len(ErrorOpen) + 1, Len(t) - Len(ErrorClose)))

\* s occurs in t as a contiguous run of tokens
Contains(t, s) ==
    \E i \in 0..(Len(t) - Len(s)) : SubSeq(t, i + 1, i + Len(s)) = s

(***************************************************************************)
(* The tool contracts (TOOL_SCHEMAS) and the configuration.                *)
(***************************************************************************)
TOOL_SCHEMAS == <<
    [name |-> <<"query_logs">>,
     properties |-> {"filter_str", "limit"}, required |-> {"filter_str"}],
    [name |-> <<"list_log_entries">>,
     properties |-> {"function_name", "hours_ago", "limit"}, required |-> {"function_name"}],
    [name |-> <<"list_repo_files">>,
     properties |-> {"path"}, required |-> {}],
    [name |-> <<"get_file_content">>,
     properties |-> {"path", "ref"}, required |-> {"path"}],
    [name |-> <<"create_branch">>,
     properties |-> {"branch_name"}, required |-> {"branch_name"}],
    [name |-> <<"commit_file_change">>,
     properties |-> {"path", "content", "message", "branch"},
     required |-> {"path", "content", "message", "branch"}],
    [name |-> <<"create_pull_request">>,
     properties |-> {"title", "body", "head_branch", "base_branch"},
     required |-> {"title", "body", "head_branch"}] >>

SchemaNames == {TOOL_SCHEMAS[i].name : i \in DOMAIN TOOL_SCHEMAS}

\* load_config: every required variable is present and non-empty
load_config == [
    OPENAI_API_KEY    |-> <<"sk-test">>,
    GCP_PROJECT_ID    |-> <<"proj-1">>,
    GCP_FUNCTION_NAME |-> <<"fn-1">>,
    GCP_SA_KEY_BASE64 |-> <<"e30=">>,
    GITHUB_TOKEN      |-> <<"ghp_test">>,
    GITHUB_REPO       |-> <<"owner/repo">> ]

(***************************************************************************)
(* Values handed to a handler.  A decoded argument value is a dict         *)
(* (type "dict", its items a function from field names to texts, numbers   *)
(* written as their decimal text) or some other JSON value (type "list").  *)
(***************************************************************************)
EmptyItems == [k \in {} |-> <<>>]
EmptyDict == [type |-> "dict", items |-> EmptyItems]
Dict(items) == [type |-> "dict", items |-> items]
NotADict == [type |-> "list", items |-> EmptyItems]

\* how one external call ends
Outcomes == {"ok", "api_error", "network_error"}

\* what a call of a Python function gives: a returned text, or an exception
\* with its str(); ops are the external calls it made, in order
Return(v, ops) == [raised |-> FALSE, exc |-> "", value |-> v, ops |-> ops]
Raise(exc, msg, ops) == [raised |-> TRUE, exc |-> exc, value |-> msg, ops |-> ops]
Op(op, a, outcome) == [op |-> op, a |-> a, outcome |-> outcome]

\* str(e) of the exceptions the remote services raise
GithubExceptionText == <<"404 {", DQ, "message", DQ, ": ", DQ, "Not Found", DQ, "}">>
ConnectionErrorText == <<"Connection aborted.">>
GoogleAPIErrorText == <<"403 Permission denied">>

(***************************************************************************)
(* agent/tools/github.py.  env is the way the external calls of one        *)
(* handler run end: its i-th external call ends as env[i].                 *)
(***************************************************************************)
\* an exception of a GitHub call that no try block of the handler covers, or
\* that is not a GithubException
RaiseGithub(o, ops) ==
    IF o = "api_error" THEN Raise("GithubException", GithubExceptionText, ops)
    ELSE Raise("ConnectionError", ConnectionErrorText, ops)

\* except GithubException as e: return json.dumps({"error": str(e)})
ExceptGithub(o, ops) ==
    IF o = "api_error" THEN Return(json_dumps_error(GithubExceptionText), ops)
    ELSE Raise("ConnectionError", ConnectionErrorText, ops)

_get_repo(config, o) == Op("get_repo", <<config.GITHUB_REPO>>, o)

list_repo_files(config, path, env) ==
    LET repo == <<_get_repo(config, env[1])>>
        ops == repo \o <<Op("get_contents", <<path>>, env[2])>>
    IN  IF env[1] # "ok" THEN RaiseGithub(env[1], repo)
        ELSE IF env[2] # "ok" THEN ExceptGithub(env[2], ops)
        ELSE Return(<<"[{", DQ, "name", DQ, ": ", DQ, "main.py", DQ, "}]">>, ops)

get_file_content(config, path, ref, env) ==
    LET repo == <<_get_repo(config, env[1])>>
        ops == repo \o <<Op("get_contents", <<path, ref>>, env[2])>>
    IN  IF env[1] # "ok" THEN RaiseGithub(env[1], repo)
        ELSE IF env[2] # "ok" THEN ExceptGithub(env[2], ops)
        ELSE Return(<<"def handler(request): ...">>, ops)

create_branch(config, branch_name, env) ==
    LET repo == <<_get_repo(config, env[1])>>
        ops2 == repo \o <<Op("get_git_ref", <<<<"heads/main">>>>, env[2])>>
        ops3 == ops2 \o <<Op("create_git_ref", <<<<"refs/heads/">> \o branch_name, <<"sha-main">>>>, env[3])>>
    IN  IF env[1] # "ok" THEN RaiseGithub(env[1], repo)
        ELSE IF env[2] # "ok" THEN ExceptGithub(env[2], ops2)
        ELSE IF env[3] # "ok" THEN ExceptGithub(env[3], ops3)
        ELSE Return(json_dumps_success(<< <<"branch", JsonString(branch_name)>>,
                                          <<"base_sha", JsonString(<<"sha-main">>)>> >>), ops3)

commit_file_change(config, path, content, message, branch, env) ==
    LET repo == <<_get_repo(config, env[1])>>
        get == repo \o <<Op("get_contents", <<path, branch>>, env[2])>>
        upd == get \o <<Op("update_file", <<path, message, content, <<"sha-file">>, branch>>, env[3])>>
        \* the create is the next external call after whichever call failed
        n == IF env[2] = "ok" THEN 4 ELSE 3
        before == IF env[2] = "ok" THEN upd ELSE get
        crt == before \o <<Op("create_file", <<path, message, content, branch>>, env[n])>>
        create ==
            IF env[n] # "ok" THEN ExceptGithub(env[n], crt)
            ELSE Return(json_dumps_success(<< <<"action", JsonString(<<"created">>)>>,
                                              <<"commit_sha", JsonString(<<"sha-new">>)>> >>), crt)
    IN  IF env[1] # "ok" THEN RaiseGithub(env[1], repo)
        ELSE IF env[2] = "network_error" THEN RaiseGithub(env[2], get)
        ELSE IF env[2] = "api_error" THEN create
        ELSE IF env[3] = "network_error" THEN RaiseGithub(env[3], upd)
        ELSE IF env[3] = "api_error" THEN create
        ELSE Return(json_dumps_success(<< <<"action", JsonString(<<"updated">>)>>,
                                          <<"commit_sha", JsonString(<<"sha-new">>)>> >>), upd)

create_pull_request(config, title, body, head_branch, base_branch, env) ==
    LET repo == <<_get_repo(config, env[1])>>
        ops == repo \o <<Op("create_pull", <<title, body, head_branch, base_branch>>, env[2])>>
    IN  IF env[1] # "ok" THEN RaiseGithub(env[1], repo)
        ELSE IF env[2] # "ok" THEN ExceptGithub(env[2], ops)
        ELSE Return(json_dumps_success(<< <<"pr_number", <<"7">>>>,
                                          <<"pr_url", JsonString(<<"https://github.com/owner/repo/pull/7">>)>>,
                                          <<"title", JsonString(title)>> >>), ops)

(***************************************************************************)
(* agent/tools/gcp_logging.py.  No handler here has a try block: every     *)
(* failure of the client leaves the handler as an exception.               *)
(***************************************************************************)
RaiseGcp(o, ops) ==
    IF o = "api_error" THEN Raise("GoogleAPICallError", GoogleAPIErrorText, ops)
    ELSE Raise("ServiceUnavailable", ConnectionErrorText, ops)

\* base64.b64decode(text): the bytes, or binascii.Error for a text that is
\* no base64 (wrong padding)
b64decode(text) ==
    CASE text = <<"e30=">> -> [raised |-> FALSE, value |-> <<"{}">>]
      [] text = <<"eyJhIjoxfQ==">> -> [raised |-> FALSE, value |-> <<"{", DQ, "a", DQ, ":1}">>]
      [] OTHER -> [raised |-> TRUE, value |-> <<"Incorrect padding">>]

\* the state of the process that _ensure_credentials_file works on:
\* temp_credentials_path is the module global (None: NoPath), files the
\* temporary files of this process that exist, named by the number of
\* their creation, created their count, environ the value of
\* GOOGLE_APPLICATION_CREDENTIALS, atexit the paths of the registered
\* cleanups in the order of their registration
NoPath == 0
NoCredentials ==
    [temp_credentials_path |-> NoPath, files |-> {}, created |-> 0,
     environ |-> NoPath, atexit |-> <<>>]

\* if _temp_credentials_path and os.path.exists(_temp_credentials_path)
RecordedFileExists(p) ==
    p.temp_credentials_path # NoPath /\ p.temp_credentials_path \in p.files

\* _ensure_credentials_file(config) in the process state p; os says how
\* tempfile.mkstemp and os.write answer. Gives the path returned or the
\* exception raised, the process state afterwards, and the calls made of
\* the operating system.
_ensure_credentials_file(config, p, os) ==
    LET sa_json == b64decode(config.GCP_SA_KEY_BASE64)
        path == p.created + 1
        made == [p EXCEPT !.files = p.files \cup {path}, !.created = path]
        asked == IF p.temp_credentials_path = NoPath THEN <<>>
                 ELSE <<Op("exists", <<p.temp_credentials_path>>,
                           IF p.temp_credentials_path \in p.files THEN "ok" ELSE "missing")>>
        mk == asked \o <<Op("mkstemp", <<>>, os.mkstemp)>>
        wr == mk \o <<Op("write", <<path, sa_json.value>>, os.write)>>
    IN  IF RecordedFileExists(p)
        THEN [raised |-> FALSE, exc |-> "", value |-> p.temp_credentials_path,
              proc |-> p, ops |-> asked]
        ELSE IF sa_json.raised
        THEN [raised |-> TRUE, exc |-> "binascii.Error", value |-> NoPath,
              proc |-> p, ops |-> asked]
        ELSE IF os.mkstemp # "ok"
        THEN [raised |-> TRUE, exc |-> "OSError", value |-> NoPath,
              proc |-> p, ops |-> mk]
        ELSE IF os.write # "ok"
        THEN \* the file of mkstemp is there, and nothing below has run
             [raised |-> TRUE, exc |-> "OSError", value |-> NoPath,
              proc |-> made, ops |-> wr]
        ELSE [raised |-> FALSE, exc |-> "", value |-> path,
              proc |-> [made EXCEPT !.environ = path,
                                    !.temp_credentials_path = path,
                                    !.atexit = Append(p.atexit, path)],
              ops |-> wr]

_get_client(config, o) == Op("LoggingClient", <<config.GCP_PROJECT_ID>>, o)

query_logs(config, filter_str, limit, env) ==
    LET client == <<_get_client(config, env[1])>>
        ops == client \o <<Op("list_entries", <<filter_str, limit>>, env[2])>>
    IN  IF env[1] # "ok" THEN RaiseGcp(env[1], client)
        ELSE IF env[2] # "ok" THEN RaiseGcp(env[2], ops)
        ELSE Return(<<"[{", DQ, "severity", DQ, ": ", DQ, "ERROR", DQ, "}]">>, ops)

list_log_entries(config, function_name, hours_ago, limit, env) ==
    LET filter_str ==
            <<"resource.type=", DQ, "cloud_run_revision", DQ,
              " resource.labels.service_name=", DQ>> \o function_name \o
            <<DQ, " logName=", DQ, "projects/">> \o config.GCP_PROJECT_ID \o
            <<"/logs/run.googleapis.com%2Frequests", DQ, " timestamp>=", DQ, "now-">>
            \o hours_ago \o <<"h", DQ>>
    IN  query_logs(config, filter_str, limit, env)

(***************************************************************************)
(* agent/tools/__init__.py: the handlers table and dispatch.               *)
(***************************************************************************)
\* args["k"]
Required(k) == [k |-> k, required |-> TRUE, default |-> <<>>]
\* mutant: the lambda reads the field as args["k"], without default
OptionalWithoutDefault(k, default) == Required(k)
\* args.get("k", default)
Optional(k, default) == [k |-> k, required |-> FALSE, default |-> default]

\* the reads each lambda of the handlers table makes of args, in the order
\* Python evaluates them
HandlerReads(tool_name) ==
    CASE tool_name = <<"query_logs">> ->
            <<Required("filter_str"), Optional("limit", <<"50">>)>>
      [] tool_name = <<"list_log_entries">> ->
            <<Required("function_name"), Optional("hours_ago", <<"24">>),
              Optional("limit", <<"50">>)>>
      [] tool_name = <<"list_repo_files">> ->
            <<Optional("path", <<>>)>>
      [] tool_name = <<"get_file_content">> ->
            <<Required("path"), Optional("ref", <<"main">>)>>
      [] tool_name = <<"create_branch">> ->
            <<Required("branch_name")>>
      [] tool_name = <<"commit_file_change">> ->
            <<Required("path"), Required("content"), Required("message"),
              Required("branch")>>
      [] tool_name = <<"create_pull_request">> ->
            <<Required("title"), Required("body"), Required("head_branch"),
              Optional("base_branch", <<"main">>)>>

\* the keys of the handlers dict
HandlerNames == {<<"query_logs">>, <<"list_log_entries">>, <<"list_repo_files">>,
                 <<"get_file_content">>, <<"create_branch">>,
                 <<"commit_file_change">>, <<"create_pull_request">>}

\* evaluating the reads: the values read, or the first exception
RECURSIVE ReadArgs(_, _, _)
ReadArgs(args, reads, vals) ==
    IF reads = <<>> THEN [raised |-> FALSE, exc |-> "", value |-> <<>>, vals |-> vals]
    ELSE LET r == Head(reads) IN
        IF args.type # "dict"
        THEN IF r.required
             THEN [raised |-> TRUE, exc |-> "TypeError", vals |-> vals,
                   value |-> <<"list indices must be integers or slices, not str">>]
             ELSE [raised |-> TRUE, exc |-> "AttributeError", vals |-> vals,
                   value |-> <<"'list' object has no attribute 'get'">>]
        ELSE IF r.k \in DOMAIN args.items
        THEN ReadArgs(args, Tail(reads), Append(vals, args.items[r.k]))
        ELSE IF r.required
        THEN [raised |-> TRUE, exc |-> "KeyError", vals |-> vals,
              value |-> <<"'", r.k, "'">>]
        ELSE ReadArgs(args, Tail(reads), Append(vals, r.default))

\* handlers[tool_name](args), for tool_name a key of handlers
CallHandler(tool_name, args, config, env) ==
    LET read == ReadArgs(args, HandlerReads(tool_name), <<>>)
        v == read.vals
    IN  IF read.raised THEN Raise(read.exc, read.value, <<>>)
        ELSE CASE tool_name = <<"query_logs">> -> query_logs(config, v[1], v[2], env)
               [] tool_name = <<"list_log_entries">> -> list_log_entries(config, v[1], v[2], v[3], env)
               [] tool_name = <<"list_repo_files">> -> list_repo_files(config, v[1], env)
               [] tool_name = <<"get_file_content">> -> get_file_content(config, v[1], v[2], env)
               [] tool_name = <<"create_branch">> -> create_branch(config, v[1], env)
               [] tool_name = <<"commit_file_change">> -> commit_file_change(config, v[1], v[2], v[3], v[4], env)
               [] tool_name = <<"create_pull_request">> -> create_pull_request(config, v[1], v[2], v[3], v[4], env)

\* mutant: a repository handler takes the token out of the mapping it uses
ConfigAfterCallTokenPopped(tool_name, config) ==
    IF tool_name \in HandlerNames
    THEN [config EXCEPT !.GITHUB_TOKEN = <<>>]
    ELSE config
\* the mapping dispatch and the handlers were given, after the call: they
\* share the dict of the caller and only ever read it (config[...] stands
\* on no left-hand side)
ConfigAfterCall(tool_name, config) == config

\* what dispatch gives its caller: result is the returned text, unless an
\* exception leaves dispatch (raised); the other fields record what happened
\* on the way (was a handler called, did it raise, which external calls
\* were made)
\* mutants: the messages leave the tool name out
UnknownToolTextNoName(tool_name) == <<"Unknown tool">>
ToolFailedTextNoName(tool_name, msg) == <<"Tool failed: ">> \o msg
\* f"Unknown tool: {tool_name}" and f"Tool '{tool_name}' failed: {str(e)}"
UnknownToolText(tool_name) == <<"Unknown tool: ">> \o tool_name
ToolFailedText(tool_name, msg) == <<"Tool '">> \o tool_name \o <<"' failed: ">> \o msg

\* mutant: the handlers dict has no entry for create_pull_request
ResolvesAllButPullRequest(tool_name) ==
    tool_name \in HandlerNames \ {<<"create_pull_request">>}
\* handlers.get(tool_name) finds a handler
Resolves(tool_name) == tool_name \in HandlerNames

\* mutant: no except clause, the handler's exception leaves dispatch
ExceptExceptionMissing(tool_name, r) ==
    [raised |-> TRUE, result |-> <<>>,
     invoked |-> TRUE, caught |-> FALSE, exc |-> r.exc, msg |-> r.value, ops |-> r.ops]
\* except Exception as e: return json.dumps({"error": ...})
ExceptException(tool_name, r) ==
    [raised |-> FALSE, result |-> json_dumps_error(ToolFailedText(tool_name, r.value)),
     invoked |-> TRUE, caught |-> TRUE, exc |-> r.exc, msg |-> r.value, ops |-> r.ops]

dispatch(tool_name, arguments, config, env) ==
    IF ~Resolves(tool_name)
    THEN [raised |-> FALSE, result |-> json_dumps_error(UnknownToolText(tool_name)),
          invoked |-> FALSE, caught |-> FALSE, exc |-> "", msg |-> <<>>, ops |-> <<>>]
    ELSE LET r == CallHandler(tool_name, arguments, config, env) IN
         IF r.raised
         THEN ExceptException(tool_name, r)
         ELSE [raised |-> FALSE, result |-> r.value,
               invoked |-> TRUE, caught |-> FALSE, exc |-> "", msg |-> <<>>, ops |-> r.ops]

(***************************************************************************)
(* The model service and the tool-call requests it may issue.              *)
(***************************************************************************)
\* tool_call.function.arguments: JSON text of an object, JSON text of
\* something else, or text that is no JSON at all
ObjectText(items) == [json |-> "object", items |-> items]
ArrayText == [json |-> "array", items |-> EmptyItems]
Malformed == [json |-> "malformed", items |-> EmptyItems]

\* mutant: text that does not parse gives a value that is no dict
json_loads_or_none(text) ==
    IF text.json = "object" THEN Dict(text.items) ELSE NotADict
\* try: json.loads(text) except json.JSONDecodeError: {}
json_loads_or_empty(text) ==
    CASE text.json = "object" -> Dict(text.items)
      [] text.json = "array" -> NotADict
      [] text.json = "malformed" -> EmptyDict

\* the requests a run of the driver draws from: an unregistered name, a
\* registered tool with unparsable arguments (with and without a required
\* field) and a well-formed external write
DriverRequests == {
    [name |-> <<"foo">>, arguments |-> ObjectText(EmptyItems)],
    [name |-> <<"create_branch">>, arguments |-> Malformed],
    [name |-> <<"list_repo_files">>, arguments |-> Malformed],
    [name |-> <<"create_branch">>, arguments |-> ObjectText([branch_name |-> <<"fix/bug">>])] }

\* the ways the external services answer during a run of the driver
DriverEnvs == {
    <<"ok", "ok", "ok", "ok">>,
    <<"ok", "api_error", "ok", "ok">>,
    <<"ok", "network_error", "ok", "ok">> }

\* message.content of a response without tool calls (None: no content field)
FinalContents == {<<>>, <<"Done.">>}

SYSTEM_PROMPT == <<"You are an AI debugging agent.">>
get_user_prompt(function_name, project_id) ==
    <<"Investigate production issues with the Cloud Function '">> \o function_name \o
    <<"' in GCP project '">> \o project_id \o <<"'.">>

NoSummaryText == <<"Agent finished without a summary.">>
MaxIterationsText == <<"Agent reached maximum iterations without completing the task.">>

(***************************************************************************)
(* State.                                                                  *)
(***************************************************************************)
VARIABLES
    config,          \* DebugAgent.config
    max_iterations,  \* DebugAgent.max_iterations
    messages,        \* DebugAgent.messages, the transcript
    iteration,       \* the value the loop variable takes next
    pc,              \* where run is: "loop", "model", "tools", or how it ended
    phase,           \* RUNNING, COMPLETED or BUDGET_EXHAUSTED
    message,         \* the assistant message whose tool calls are being run
    tc,              \* index of the next tool call of message
    result,          \* what run returned
    model_calls,     \* number of calls of the model so far
    sent,            \* the messages handed to the latest call of the model
    tools,           \* the tool contracts handed to the latest call of the model
    proc,            \* the process: credential file state of gcp_logging
    ext,             \* the external calls made so far, in order
    last,            \* the latest call of dispatch and what it gave
    exit_code        \* the exit code of the process, NoExit while it runs

vars == <<config, max_iterations, messages, iteration, pc, phase, message, tc,
          result, model_calls, sent, tools, proc, ext, last, exit_code>>

NoExit == -1
NoMessage == [role |-> "assistant"]
NoDispatch == [called |-> FALSE, tool_name |-> <<>>, arguments |-> EmptyDict,
               ret |-> [raised |-> FALSE, result |-> <<>>, invoked |-> FALSE,
                        caught |-> FALSE, exc |-> "", msg |-> <<>>, ops |-> <<>>]]

\* "not message.tool_calls": None or an empty list
HasToolCalls(m) == "tool_calls" \in DOMAIN m /\ m.tool_calls # <<>>
\* mutant: the default stands in for None only, not for the empty text
ContentOrNoneOnly(m, default) ==
    IF "content" \in DOMAIN m THEN m.content ELSE default
\* "message.content or default"
ContentOr(m, default) ==
    IF "content" \in DOMAIN m /\ m.content # <<>> THEN m.content ELSE default

\* number of tool-call requests issued so far in the transcript
RECURSIVE Issued(_)
Issued(ms) ==
    IF ms = <<>> THEN 0
    ELSE (IF HasToolCalls(Head(ms)) THEN Len(Head(ms).tool_calls) ELSE 0) + Issued(Tail(ms))

\* the responses the model may give at this point of the run
ToolCallsOf(k, reqs) ==
    [j \in DOMAIN reqs |-> [id |-> <<k, j>>, function |-> reqs[j]]]
Responses(k, room) ==
    {[role |-> "assistant"], [role |-> "assistant", tool_calls |-> <<>>]}
    \cup {[role |-> "assistant", content |-> c] : c \in FinalContents}
    \cup {[role |-> "assistant", tool_calls |-> ToolCallsOf(k, reqs)] :
            reqs \in UNION {[1..n -> DriverRequests] : n \in 1..room}}

(***************************************************************************)
(* DebugAgent.__init__ and the first statements of run.                    *)
(***************************************************************************)
Init ==
    /\ config = load_config
    /\ max_iterations \in 0..MaxBound
    /\ messages = << [role |-> "system", content |-> SYSTEM_PROMPT],
                     [role |-> "user",
                      content |-> get_user_prompt(load_config.GCP_FUNCTION_NAME,
                                                  load_config.GCP_PROJECT_ID)] >>
    /\ iteration = 1
    /\ pc = "loop"
    /\ phase = "RUNNING"
    /\ message = NoMessage
    /\ tc = 1
    /\ result = <<>>
    /\ model_calls = 0
    /\ sent = <<>>
    /\ tools = <<>>
    /\ proc = NoCredentials
    /\ ext = <<>>
    /\ last = NoDispatch
    /\ exit_code = NoExit

(***************************************************************************)
(* DebugAgent.run                                                          *)
(***************************************************************************)
\* mutants of the loop range: range(1, n + 2) and range(1, n)
LoopContinuesOffByOne(k, n) == k <= n + 1
LoopContinuesStrict(k, n) == k < n
\* for iteration in range(1, self.max_iterations + 1): the next value exists
LoopContinues(k, n) == k <= n

\* mutant: the transcript keeps its seed and the newest message only
list_append_truncating(ms, m) == Append(SubSeq(ms, 1, 2), m)
\* self.messages.append(m)
list_append(ms, m) == Append(ms, m)

\* mutant: only the first request carries the tool contracts
CallModelToolsOnce ==
    /\ pc = "loop"
    /\ LoopContinues(iteration, max_iterations)
    /\ pc' = "model"
    /\ model_calls' = model_calls + 1
    /\ sent' = messages
    /\ tools' = IF iteration = 1 THEN TOOL_SCHEMAS ELSE <<>>
    /\ UNCHANGED <<config, max_iterations, messages, iteration, phase, message,
                   tc, result, proc, ext, last, exit_code>>
\* the loop takes its next value and the request goes out to the model:
\* create(model=..., messages=self.messages, tools=TOOL_SCHEMAS)
CallModel ==
    /\ pc = "loop"
    /\ LoopContinues(iteration, max_iterations)
    /\ pc' = "model"
    /\ model_calls' = model_calls + 1
    /\ sent' = messages
    /\ tools' = TOOL_SCHEMAS
    /\ UNCHANGED <<config, max_iterations, messages, iteration, phase, message,
                   tc, result, proc, ext, last, exit_code>>

\* mutant: the content is appended as it came, None as the empty text
FinalMessageAsReceived(m) ==
    [role |-> "assistant", content |-> IF "content" \in DOMAIN m THEN m.content ELSE <<>>]
\* the message appended for a response without tool calls
FinalMessage(m) == [role |-> "assistant", content |-> ContentOr(m, NoSummaryText)]

\* the model answers: either the final message, or tool calls to run
ModelReturn(m) ==
    /\ pc = "model"
    /\ message' = m
    /\ IF ~HasToolCalls(m)
       THEN /\ messages' = list_append(messages, FinalMessage(m))
            /\ result' = FinalMessage(m).content
            /\ phase' = "COMPLETED"
            /\ pc' = "done"
            /\ UNCHANGED tc
       ELSE /\ messages' = list_append(messages, m)
            /\ tc' = 1
            /\ pc' = "tools"
            /\ UNCHANGED <<result, phase>>
    /\ UNCHANGED <<config, max_iterations, iteration, model_calls, sent, tools, proc, ext, last,
                   exit_code>>

\* mutant: the failed call is retried by the loop
ModelFailRetried ==
    /\ pc = "model"
    /\ pc' = "loop"
    /\ UNCHANGED <<config, max_iterations, messages, iteration, phase, message,
                   tc, result, model_calls, sent, tools, proc, ext, last, exit_code>>
\* the call of the model raises: run has no try block, the exception leaves it
ModelFail ==
    /\ pc = "model"
    /\ pc' = "failed"
    /\ UNCHANGED <<config, max_iterations, messages, iteration, phase, message,
                   tc, result, model_calls, sent, tools, proc, ext, last, exit_code>>

\* mutant: the tool message does not say which call it answers
ToolMessageNoId(tool_call, text) ==
    [role |-> "tool", tool_call_id |-> <<>>, content |-> text]
\* mutant: every tool message of a turn carries the id of the turn's first call
ToolMessageFirstId(tool_call, text) ==
    [role |-> "tool", tool_call_id |-> <<tool_call.id[1], 1>>, content |-> text]
\* the tool message appended for tool_call
ToolMessage(tool_call, text) ==
    [role |-> "tool", tool_call_id |-> tool_call.id, content |-> text]

\* mutant: the inner loop stops after its first pass
HasNextToolCallNever(j, tool_calls) == FALSE
\* for tool_call in message.tool_calls: the list has an element after the j-th
HasNextToolCall(j, tool_calls) == j < Len(tool_calls)

\* one pass of "for tool_call in message.tool_calls"; after the last one the
\* outer loop goes on to its next value
DispatchTool(env) ==
    /\ pc = "tools"
    /\ LET tool_call == message.tool_calls[tc]
           tool_name == tool_call.function.name
           arguments == json_loads_or_empty(tool_call.function.arguments)
           ret == dispatch(tool_name, arguments, config, env)
       IN  /\ ext' = ext \o ret.ops
           /\ config' = ConfigAfterCall(tool_name, config)
           /\ last' = [called |-> TRUE, tool_name |-> tool_name,
                       arguments |-> arguments, ret |-> ret]
           /\ IF ret.raised
              THEN \* an exception that leaves dispatch leaves run as well
                   /\ pc' = "failed"
                   /\ UNCHANGED <<messages, tc, iteration>>
              ELSE /\ messages' = list_append(messages, ToolMessage(tool_call, ret.result))
                   /\ IF HasNextToolCall(tc, message.tool_calls)
                      THEN /\ tc' = tc + 1
                           /\ UNCHANGED <<pc, iteration>>
                      ELSE /\ tc' = 1
                           /\ pc' = "loop"
                           /\ iteration' = iteration + 1
    /\ UNCHANGED <<max_iterations, phase, message, result, model_calls, sent, tools, proc,
                   exit_code>>

\* mutant: the final answer leaves the loop by break, and line 108 follows
BudgetExhaustedAfterBreak ==
    /\ \/ pc = "loop" /\ ~LoopContinues(iteration, max_iterations)
       \/ pc = "done" /\ phase = "COMPLETED"
    /\ result' = MaxIterationsText
    /\ phase' = "BUDGET_EXHAUSTED"
    /\ pc' = "done"
    /\ UNCHANGED <<config, max_iterations, messages, iteration, message, tc,
                   model_calls, sent, tools, proc, ext, last, exit_code>>
\* mutant: with its range used up the loop spins instead of ending
BudgetExhaustedSpins ==
    /\ pc = "loop"
    /\ ~LoopContinues(iteration, max_iterations)
    /\ UNCHANGED vars
\* the loop has no next value: "Max iterations reached"
BudgetExhausted ==
    /\ pc = "loop"
    /\ ~LoopContinues(iteration, max_iterations)
    /\ result' = MaxIterationsText
    /\ phase' = "BUDGET_EXHAUSTED"
    /\ pc' = "done"
    /\ UNCHANGED <<config, max_iterations, messages, iteration, message, tc,
                   model_calls, sent, tools, proc, ext, last, exit_code>>

\* mutant: the interrupt takes the transcript back to its seed
InterruptRollsBack ==
    /\ pc \in {"loop", "model", "tools"}
    /\ pc' = "interrupted"
    /\ messages' = SubSeq(messages, 1, 2)
    /\ UNCHANGED <<config, max_iterations, iteration, phase, message,
                   tc, result, model_calls, sent, tools, proc, ext, last, exit_code>>
\* KeyboardInterrupt: raised in run wherever it is, and caught by nothing there
Interrupt ==
    /\ pc \in {"loop", "model", "tools"}
    /\ pc' = "interrupted"
    /\ UNCHANGED <<config, max_iterations, messages, iteration, phase, message,
                   tc, result, model_calls, sent, tools, proc, ext, last, exit_code>>

\* KeyboardInterrupt while a handler runs, after the k-th of its calls of an
\* external service: "except Exception" in dispatch does not catch it (it is
\* a BaseException), so it leaves dispatch and run; the calls made so far
\* stay made and no tool message is appended
InterruptInHandler(env, k) ==
    /\ pc = "tools"
    /\ LET tool_call == message.tool_calls[tc]
           ret == dispatch(tool_call.function.name,
                           json_loads_or_empty(tool_call.function.arguments),
                           config, env)
       IN  /\ k \in 1..Len(ret.ops)
           /\ ext' = ext \o SubSeq(ret.ops, 1, k)
    /\ pc' = "interrupted"
    /\ UNCHANGED <<config, max_iterations, messages, iteration, phase, message,
                   tc, result, model_calls, sent, tools, proc, last, exit_code>>

(***************************************************************************)
(* main: the try block around agent.run()                                  *)
(***************************************************************************)
\* mutant: main has no sys.exit(1) in its except clauses
MainExitAlwaysZero ==
    /\ pc \in {"done", "failed", "interrupted"}
    /\ exit_code = NoExit
    /\ exit_code' = 0
    /\ UNCHANGED <<config, max_iterations, messages, iteration, pc, phase, message,
                   tc, result, model_calls, sent, tools, proc, ext, last>>
MainExit ==
    /\ pc \in {"done", "failed", "interrupted"}
    /\ exit_code = NoExit
    /\ exit_code' = IF pc = "done" THEN 0 ELSE 1
    /\ UNCHANGED <<config, max_iterations, messages, iteration, pc, phase, message,
                   tc, result, model_calls, sent, tools, proc, ext, last>>

Next ==
    \/ CallModel
    \/ \E m \in Responses(iteration, MaxCalls - Issued(messages)) : ModelReturn(m)
    \/ ModelFail
    \/ \E env \in DriverEnvs : DispatchTool(env)
    \/ BudgetExhausted
    \/ Interrupt
    \/ \E env \in DriverEnvs : \E k \in DOMAIN env : InterruptInHandler(env, k)
    \/ MainExit

Spec == Init /\ [][Next]_vars

\* the requests of the runs checked for termination: a name without handler
\* and a handler that calls the repository service, so that a handler call
\* returns, reports an error or raises
FairRequests ==
    {r \in DriverRequests : r.name \in {<<"foo">>, <<"list_repo_files">>}}
FairResponses(k, room) ==
    {m \in Responses(k, room) :
        HasToolCalls(m) =>
            \A j \in DOMAIN m.tool_calls : m.tool_calls[j].function \in FairRequests}

\* the steps of a run that no interrupt cuts short: every statement of run
\* and main is synchronous, and a call of the model or of a handler that
\* returns or raises lets the next statement run
ProgramStep ==
    \/ CallModel
    \/ \E m \in FairResponses(iteration, MaxCalls - Issued(messages)) : ModelReturn(m)
    \/ ModelFail
    \/ \E env \in DriverEnvs : DispatchTool(env)
    \/ BudgetExhausted
    \/ MainExit

SpecFair == Init /\ [][ProgramStep]_vars /\ WF_vars(ProgramStep)

(***************************************************************************)
(* dispatch on its own: one call with any name, any arguments and any      *)
(* answer of the external services.                                        *)
(***************************************************************************)
\* a value for each field a tool contract declares
SampleValue == [
    filter_str    |-> <<"severity>=ERROR">>,
    limit         |-> <<"10">>,
    function_name |-> <<"fn-1">>,
    hours_ago     |-> <<"1">>,
    path          |-> <<"src/main.py">>,
    ref           |-> <<"dev">>,
    branch_name   |-> <<"fix/bug">>,
    content       |-> <<"print(", DQ, "fixed", DQ, ")">>,
    message       |-> <<"Fix the bug">>,
    branch        |-> <<"fix/bug">>,
    title         |-> <<"Fix">>,
    body          |-> <<"## Investigation">>,
    head_branch   |-> <<"fix/bug">>,
    base_branch   |-> <<"dev">> ]

\* names no contract declares: plain, with a character JSON escapes, empty,
\* and a declared name in another case
UnknownNames == {<<"foo">>, <<"fo", DQ, "o">>, <<"C:", BS, "tool">>, <<>>,
                 <<"Query_Logs">>}
DispatchNames == SchemaNames \cup HandlerNames \cup UnknownNames

PropertiesOf(tool_name) ==
    UNION {TOOL_SCHEMAS[i].properties :
             i \in {j \in DOMAIN TOOL_SCHEMAS : TOOL_SCHEMAS[j].name = tool_name}}
RequiredOf(tool_name) ==
    UNION {TOOL_SCHEMAS[i].required :
             i \in {j \in DOMAIN TOOL_SCHEMAS : TOOL_SCHEMAS[j].name = tool_name}}

\* the argument values a caller may pass for tool_name: every selection of
\* its declared fields, and a value that is no dict
ArgumentsFor(tool_name) ==
    {Dict([k \in S |-> SampleValue[k]]) : S \in SUBSET PropertiesOf(tool_name)}
    \cup {NotADict}

Envs == [1..4 -> Outcomes]

DispatchCall(tool_name, arguments, env) ==
    /\ pc = "loop"
    /\ ~last.called
    /\ LET ret == dispatch(tool_name, arguments, config, env)
       IN  /\ ext' = ret.ops
           /\ last' = [called |-> TRUE, tool_name |-> tool_name,
                       arguments |-> arguments, ret |-> ret]
    /\ config' = ConfigAfterCall(tool_name, config)
    /\ UNCHANGED <<max_iterations, messages, iteration, pc, phase, message,
                   tc, result, model_calls, sent, tools, proc, exit_code>>

NextDispatch ==
    \E tool_name \in DispatchNames :
        \E arguments \in ArgumentsFor(tool_name) :
            \E env \in Envs : DispatchCall(tool_name, arguments, env)

SpecDispatch == Init /\ [][NextDispatch]_vars

(***************************************************************************)
(* _ensure_credentials_file on its own: the calls one process makes of it, *)
(* whatever the key, the answers of the operating system and the fate of   *)
(* its temporary files.                                                    *)
(***************************************************************************)
\* the values of GCP_SA_KEY_BASE64: two keys and a text that is no base64
KeyTexts == {<<"e30=">>, <<"eyJhIjoxfQ==">>, <<"not base64">>}
OsAnswers == [mkstemp : {"ok", "fail"}, write : {"ok", "fail"}]

InitCredentials ==
    /\ config \in {[load_config EXCEPT !.GCP_SA_KEY_BASE64 = k] : k \in KeyTexts}
    /\ max_iterations = 0
    /\ messages = <<>>
    /\ iteration = 1
    /\ pc = "loop"
    /\ phase = "RUNNING"
    /\ message = NoMessage
    /\ tc = 1
    /\ result = <<>>
    /\ model_calls = 0
    /\ sent = <<>>
    /\ tools = <<>>
    /\ proc = NoCredentials
    /\ ext = <<>>
    /\ last = NoDispatch
    /\ exit_code = NoExit

\* a log tool calls _get_client, which calls _ensure_credentials_file
EnsureCredentials(os) ==
    /\ exit_code = NoExit
    /\ Len(ext) < MaxOsCalls
    /\ LET ret == _ensure_credentials_file(config, proc, os)
       IN  /\ proc' = ret.proc
           /\ ext' = ext \o ret.ops
    /\ UNCHANGED <<config, max_iterations, messages, iteration, pc, phase, message,
                   tc, result, model_calls, sent, tools, last, exit_code>>

\* something outside the process removes one of its temporary files
ExternalUnlink(f) ==
    /\ exit_code = NoExit
    /\ f \in proc.files
    /\ proc' = [proc EXCEPT !.files = proc.files \ {f}]
    /\ UNCHANGED <<config, max_iterations, messages, iteration, pc, phase, message,
                   tc, result, model_calls, sent, tools, ext, last, exit_code>>

\* the process exits and the registered cleanups run:
\* os.unlink(path) if os.path.exists(path) else None
AtExit ==
    /\ exit_code = NoExit
    /\ exit_code' = 0
    /\ proc' = [proc EXCEPT !.files =
                    proc.files \ {proc.atexit[i] : i \in DOMAIN proc.atexit}]
    /\ UNCHANGED <<config, max_iterations, messages, iteration, pc, phase, message,
                   tc, result, model_calls, sent, tools, ext, last>>

NextCredentials ==
    \/ \E os \in OsAnswers : EnsureCredentials(os)
    \/ \E f \in proc.files : ExternalUnlink(f)
    \/ AtExit

SpecCredentials == InitCredentials /\ [][NextCredentials]_vars

(***************************************************************************)
(* Properties of the driver loop.                                          *)
(***************************************************************************)
\* a step of run in which the model's answer arrives
ResponseArrives == pc = "model" /\ pc' \in {"done", "tools"}

\* C1: a run makes at most max_iterations calls of the model: the iteration
\* counter starts at 1 and only grows, one step at a time, the k-th call is
\* made at iteration k, and no call is made once iteration > max_iterations.
C1_AtMostBoundModelCalls ==
    /\ [](/\ model_calls <= max_iterations
          /\ iteration >= 1
          /\ (pc \in {"model", "tools"} => model_calls = iteration)
          /\ (pc = "loop" => model_calls = iteration - 1))
    /\ [][/\ iteration' \in {iteration, iteration + 1}
          /\ (model_calls' # model_calls =>
                /\ model_calls' = model_calls + 1
                /\ iteration <= max_iterations
                /\ iteration' = iteration)]_vars

\* C1 witness: the budget is used up by as many model calls as it allows
C1_Witness ==
    /\ max_iterations = MaxBound
    /\ model_calls = max_iterations
    /\ pc = "loop"
    /\ iteration = max_iterations + 1

\* C2 as stated: a response without tool calls ends the run COMPLETED, the
\* message itself is the last of the transcript and run returns exactly its
\* content, whatever that content is.
C2_ReturnsExactContent ==
    phase = "COMPLETED" =>
        /\ "content" \in DOMAIN message
        /\ result = message.content
        /\ messages[Len(messages)].content = message.content

\* C2 as amended: a response of iteration k <= max_iterations without tool
\* calls ends the run at iteration k in phase COMPLETED; run returns the
\* content of that message when it is a non-empty text and the fixed text
\* "Agent finished without a summary." when it is empty or None; an
\* assistant message with the returned text is appended; afterwards no call
\* of the model and no dispatch happens and the transcript stays as it is.
C2_TerminalResponseCompletes ==
    /\ [](phase = "COMPLETED" =>
            /\ pc = "done"
            /\ ~HasToolCalls(message)
            /\ iteration <= max_iterations
            /\ model_calls = iteration
            /\ result = (IF "content" \in DOMAIN message /\ message.content # <<>>
                         THEN message.content ELSE NoSummaryText)
            /\ messages = Append(sent, [role |-> "assistant", content |-> result]))
    /\ [][(ResponseArrives /\ ~HasToolCalls(message')) =>
            /\ phase' = "COMPLETED"
            /\ pc' = "done"
            /\ iteration' = iteration]_vars
    /\ [][phase = "COMPLETED" =>
            UNCHANGED <<messages, model_calls, ext, last, phase, result, iteration>>]_vars

\* C2 witness: the second response has no tool calls and no content, and the
\* process has left with the run completed
C2_Witness ==
    /\ phase = "COMPLETED"
    /\ iteration = 2
    /\ "content" \notin DOMAIN message
    /\ result = NoSummaryText
    /\ exit_code = 0

\* C3: with max_iterations = 0 the model is never called and nothing is
\* dispatched; the loop is over at once and run returns the fixed
\* budget-exhausted text in phase BUDGET_EXHAUSTED.
C3_ZeroBound ==
    max_iterations = 0 =>
        /\ model_calls = 0
        /\ ~last.called
        /\ ext = <<>>
        /\ Len(messages) = 2
        /\ pc \in {"loop", "done", "interrupted"}
        /\ (pc = "loop" => ENABLED BudgetExhausted /\ ~ENABLED CallModel)
        /\ (pc = "done" => phase = "BUDGET_EXHAUSTED" /\ result = MaxIterationsText)

\* C3 witness: a run with max_iterations = 0 has returned
C3_Witness ==
    /\ max_iterations = 0
    /\ pc = "done"
    /\ phase = "BUDGET_EXHAUSTED"
    /\ exit_code = 0

\* the assistant messages of the transcript, by index
AssistantAt == {a \in DOMAIN messages : messages[a].role = "assistant"}
\* the index of the latest assistant message before index i (0: none)
AssistantBefore(i) ==
    IF \E a \in AssistantAt : a < i
    THEN CHOOSE a \in AssistantAt : a < i /\ \A b \in AssistantAt : b < i => b <= a
    ELSE 0
\* the tool message at index i answers the request of the latest assistant
\* message before it that stands as far down its list as i stands behind it
AnswersInOrder(i) ==
    LET a == AssistantBefore(i) IN
    /\ a > 0
    /\ HasToolCalls(messages[a])
    /\ i - a <= Len(messages[a].tool_calls)
    /\ messages[i].tool_call_id = messages[a].tool_calls[i - a].id
\* the assistant message at index a is followed by one tool message for each
\* of its requests
FullyAnswered(a) ==
    HasToolCalls(messages[a]) =>
        /\ a + Len(messages[a].tool_calls) <= Len(messages)
        /\ \A j \in 1..Len(messages[a].tool_calls) : messages[a + j].role = "tool"

\* the growth of the transcript over the iterations done so far: the two seed
\* messages, one assistant message for each iteration and one tool message
\* for each request
GrowthByTurns ==
    pc = "loop" =>
        /\ Len(messages) = 2 + (iteration - 1) + Issued(messages)
        /\ \A a \in AssistantAt : FullyAnswered(a)
        /\ (iteration > 1 =>
              /\ HasToolCalls(message)
              /\ Len(messages) = Len(sent) + 1 + Len(message.tool_calls)
              /\ messages[Len(sent) + 1] = message)

\* C4 as stated: after an iteration with N requests the transcript has grown
\* by 1 + N, the i-th tool message carrying the id of the i-th request, and
\* in every state each tool message's id is the id of a request of the
\* latest assistant message of the transcript.
C4_ResolvesToLatestAssistant ==
    /\ GrowthByTurns
    /\ \A i \in DOMAIN messages : messages[i].role = "tool" =>
          LET a == AssistantBefore(Len(messages) + 1) IN
          /\ HasToolCalls(messages[a])
          /\ \E j \in DOMAIN messages[a].tool_calls :
                messages[a].tool_calls[j].id = messages[i].tool_call_id

\* C4 as amended: after an iteration with N >= 1 requests the transcript has
\* grown by exactly 1 + N messages, the assistant message followed by N tool
\* messages, the i-th carrying the id of the i-th request; in every state
\* each tool message's id is the id of a request of the latest assistant
\* message that precedes it in the transcript.
C4_TranscriptGrowth ==
    /\ GrowthByTurns
    /\ \A i \in DOMAIN messages : messages[i].role = "tool" => AnswersInOrder(i)

\* C4 witness: the second iteration has just answered its two requests
C4_Witness ==
    /\ pc = "loop"
    /\ iteration = 3
    /\ Len(message.tool_calls) = 2
    /\ Len(messages) = Len(sent) + 3

\* the request that the tool message at index i answers
RequestOf(i) == messages[AssistantBefore(i)].tool_calls[i - AssistantBefore(i)]
\* the last external call of a handler run failed
LastOpFailed(ops) == ops # <<>> /\ ops[Len(ops)].outcome # "ok"
\* the tool messages of the transcript, by index
ToolAt == {i \in DOMAIN messages : messages[i].role = "tool"}

\* C5 as stated: every error of tool execution (unknown name, malformed
\* argument text, handler failure) puts an error payload into the transcript
\* as that call's tool message and does not end the run; only a failure of
\* the model call does.
C5_EveryToolErrorIsPayload ==
    /\ \A i \in ToolAt :
          (\/ RequestOf(i).function.name \notin SchemaNames
           \/ RequestOf(i).function.arguments.json = "malformed")
          => IsErrorPayload(messages[i].content)
    /\ (last.called /\ (last.ret.caught \/ LastOpFailed(last.ret.ops)))
          => IsErrorPayload(last.ret.result)
    /\ (pc = "failed" => messages = sent)

\* C5 as amended: no error of tool execution ends the run.  For an unknown
\* tool name and for a handler failure an error payload is appended as that
\* call's tool message; for malformed argument text the handler runs with
\* the empty mapping and what it returns is appended, an error payload when
\* the handler then fails and its ordinary result otherwise.  The remaining
\* tool calls of the turn are still dispatched, the next model call receives
\* the transcript with these messages, and only a failure of the model call
\* itself ends the run with an error.
C5_ToolErrorsStayInTranscript ==
    /\ [][(pc = "tools" /\ pc' # "interrupted") =>
            LET tool_call == message.tool_calls[tc]
                tool_name == tool_call.function.name
                ret == last'.ret
            IN  /\ pc' \in {"tools", "loop"}
                /\ messages' = Append(messages, [role |-> "tool",
                                                 tool_call_id |-> tool_call.id,
                                                 content |-> ret.result])
                /\ (tc < Len(message.tool_calls) => pc' = "tools" /\ tc' = tc + 1)
                /\ (tc = Len(message.tool_calls) => pc' = "loop")
                /\ (tool_name \notin SchemaNames =>
                      /\ IsErrorPayload(ret.result)
                      /\ ErrorOf(ret.result) = <<"Unknown tool: ">> \o tool_name)
                /\ (ret.caught =>
                      /\ IsErrorPayload(ret.result)
                      /\ ErrorOf(ret.result) =
                            <<"Tool '">> \o tool_name \o <<"' failed: ">> \o ret.msg)
                /\ (LastOpFailed(ret.ops) => IsErrorPayload(ret.result))
                /\ (tool_call.function.arguments.json = "malformed" =>
                      /\ last'.arguments = EmptyDict
                      /\ (tool_name \in SchemaNames => ret.invoked)
                      /\ (IsErrorPayload(ret.result) <=>
                            \/ tool_name \notin SchemaNames
                            \/ ret.caught
                            \/ LastOpFailed(ret.ops)))]_vars
    /\ [](pc = "model" =>
            /\ sent = messages
            /\ \A i \in ToolAt : sent[i] = messages[i]
            /\ (last.called => sent[Len(sent)].content = last.ret.result))
    /\ [][pc' = "failed" => pc \in {"model", "failed"}]_vars

\* C5 witness: a handler failed on its missing argument after an unknown
\* tool was answered in the same turn, and the model has been called again
C5_Witness ==
    /\ pc = "model"
    /\ iteration = 2
    /\ Len(messages) = 5
    /\ messages[4].content = json_dumps_error(<<"Unknown tool: ", "foo">>)
    /\ last.ret.caught
    /\ last.ret.exc = "KeyError"

(***************************************************************************)
(* Properties of dispatch.                                                 *)
(***************************************************************************)
\* some external call of a handler run failed
AnyOpFailed(ops) == \E i \in DOMAIN ops : ops[i].outcome # "ok"

\* C6: dispatch called with a tool name that no contract declares returns an
\* error payload whose message is "Unknown tool: " followed by that name,
\* raises nothing, calls no handler and makes no external call.
C6_UnknownToolPayload ==
    (last.called /\ last.tool_name \notin SchemaNames) =>
        /\ ~last.ret.raised
        /\ IsErrorPayload(last.ret.result)
        /\ ErrorOf(last.ret.result) = <<"Unknown tool: ">> \o last.tool_name
        /\ Contains(ErrorOf(last.ret.result), last.tool_name)
        /\ ~last.ret.invoked
        /\ last.ret.ops = <<>>
        /\ ext = <<>>

\* C6 witness: dispatch was called with an unknown name that holds a
\* character JSON escapes
C6_Witness ==
    /\ last.called
    /\ last.tool_name = <<"fo", DQ, "o">>
    /\ last.arguments = EmptyDict

\* C7 as stated: whenever the handler of a registered tool fails (a network
\* error, a remote-API error, a repository-service error, a missing required
\* argument), dispatch returns an error payload that contains both the tool
\* name and the failure message, and propagates nothing.
C7_EveryFailureNamesTool ==
    (/\ last.called
     /\ last.tool_name \in SchemaNames
     /\ (last.ret.caught \/ AnyOpFailed(last.ret.ops))) =>
        /\ ~last.ret.raised
        /\ IsErrorPayload(last.ret.result)
        /\ Contains(ErrorOf(last.ret.result), last.tool_name)
        /\ Contains(ErrorOf(last.ret.result),
                    IF last.ret.caught THEN last.ret.msg ELSE GithubExceptionText)

\* C7 as amended: dispatch never propagates the failure of a registered
\* tool's handler.  When the failure leaves the handler as an exception (a
\* missing required argument, a network error, any failure of a log tool, a
\* repository-service error while the repository is opened) dispatch returns
\* an error payload that contains both the tool name and the failure
\* message.  A repository-service error raised inside the try block of a
\* GitHub handler is turned by the handler itself into an error payload that
\* contains the failure message and not the tool name; in commit_file_change
\* such an error of the existence check or of the update is not reported:
\* the handler goes on to create the file and reports how the create ended.
C7_HandlerFailurePayload ==
    (last.called /\ last.tool_name \in SchemaNames) =>
        LET ret == last.ret IN
        /\ ~ret.raised
        /\ ret.invoked
        /\ (ret.caught =>
              /\ IsErrorPayload(ret.result)
              /\ ErrorOf(ret.result) =
                    <<"Tool '">> \o last.tool_name \o <<"' failed: ">> \o ret.msg
              /\ Contains(ErrorOf(ret.result), last.tool_name)
              /\ Contains(ErrorOf(ret.result), ret.msg))
        /\ ((~ret.caught /\ LastOpFailed(ret.ops)) =>
              /\ ret.ops[Len(ret.ops)].outcome = "api_error"
              /\ ret.ops[1].op = "get_repo"
              /\ Len(ret.ops) > 1
              /\ IsErrorPayload(ret.result)
              /\ ErrorOf(ret.result) = GithubExceptionText
              /\ ~Contains(ErrorOf(ret.result), last.tool_name))
        /\ ((~ret.caught /\ ~LastOpFailed(ret.ops) /\ AnyOpFailed(ret.ops)) =>
              /\ last.tool_name = <<"commit_file_change">>
              /\ ret.ops[Len(ret.ops)].op = "create_file"
              /\ ~IsErrorPayload(ret.result))

\* C7 witness: create_branch met a repository-service error inside its try
\* block
C7_Witness ==
    /\ last.called
    /\ last.tool_name = <<"create_branch">>
    /\ ~last.ret.caught
    /\ Len(last.ret.ops) = 3
    /\ last.ret.ops[3].outcome = "api_error"

(***************************************************************************)
(* Properties of the driver loop, continued.                               *)
(***************************************************************************)
\* C8: when the argument text of a request does not parse, the turn goes
\* on: dispatch is called with the empty mapping, the handler the name
\* resolves to is invoked with it (a handler without required fields then
\* runs on its defaults), and the tool message of that request is appended
\* as for any other call.
C8_MalformedArgumentsStillDispatched ==
    [][(/\ pc = "tools"
        /\ pc' # "interrupted"
        /\ message.tool_calls[tc].function.arguments.json = "malformed") =>
          LET tool_call == message.tool_calls[tc] IN
          /\ last'.called
          /\ last'.tool_name = tool_call.function.name
          /\ last'.arguments = EmptyDict
          /\ (tool_call.function.name \in SchemaNames => last'.ret.invoked)
          /\ (tool_call.function.name = <<"list_repo_files">> =>
                /\ Len(last'.ret.ops) = 2
                /\ last'.ret.ops[2].op = "get_contents"
                /\ last'.ret.ops[2].a = << <<>> >>)
          /\ pc' \in {"tools", "loop"}
          /\ messages' = Append(messages, [role |-> "tool",
                                           tool_call_id |-> tool_call.id,
                                           content |-> last'.ret.result])]_vars

\* C8 witness: list_repo_files was requested with argument text that does
\* not parse, ran on the empty mapping, and the run went on to the next
\* call of the model
C8_Witness ==
    /\ pc = "model"
    /\ iteration = 2
    /\ messages[Len(messages)].role = "tool"
    /\ RequestOf(Len(messages)).function.arguments.json = "malformed"
    /\ last.tool_name = <<"list_repo_files">>
    /\ last.arguments = EmptyDict
    /\ last.ret.invoked
    /\ ~IsErrorPayload(last.ret.result)

\* C9: a failure of the model call is not retried and not recovered in run:
\* it leaves run, after which no model call and no dispatch happens in that
\* run, and the transcript is what it was when the failed call was made;
\* main turns it into exit code 1.
C9_ModelFailureAborts ==
    /\ [][(pc = "model" /\ pc' \notin {"model", "done", "tools", "interrupted"}) =>
            /\ pc' = "failed"
            /\ UNCHANGED <<messages, model_calls, ext, last, phase, result>>]_vars
    /\ [][pc = "failed" =>
            UNCHANGED <<messages, model_calls, sent, ext, last, phase, result, pc>>]_vars
    /\ [](pc = "failed" =>
            /\ messages = sent
            /\ phase = "RUNNING"
            /\ exit_code \in {NoExit, 1}
            /\ (exit_code = NoExit => ENABLED MainExit))

\* C9 witness: the second call of the model failed and the process has left
C9_Witness ==
    /\ pc = "failed"
    /\ iteration = 2
    /\ model_calls = 2
    /\ Len(messages) = 4
    /\ exit_code = 1

\* the assistant messages of the transcript that request tool calls
ToolTurns == Cardinality({a \in AssistantAt : HasToolCalls(messages[a])})

\* C10: when the response of the last allowed iteration requests tool calls,
\* each of them is dispatched and answered in the transcript; then the loop
\* ends without another model call and run returns the fixed
\* budget-exhausted text, the tool results still in the transcript.  A run
\* that returns ends BUDGET_EXHAUSTED exactly when none of the
\* max_iterations responses was a final one.
C10_LastIterationToolCalls ==
    /\ [](phase = "BUDGET_EXHAUSTED" =>
            /\ pc = "done"
            /\ result = MaxIterationsText
            /\ model_calls = max_iterations
            /\ iteration = max_iterations + 1
            /\ \A a \in AssistantAt : FullyAnswered(a)
            /\ (max_iterations >= 1 =>
                  /\ HasToolCalls(message)
                  /\ Len(messages) = Len(sent) + 1 + Len(message.tool_calls)
                  /\ messages[Len(sent) + 1] = message
                  /\ \A j \in DOMAIN message.tool_calls :
                        /\ messages[Len(sent) + 1 + j].role = "tool"
                        /\ messages[Len(sent) + 1 + j].tool_call_id = message.tool_calls[j].id
                  /\ messages[Len(messages)].content = last.ret.result))
    /\ [](pc = "done" => (phase = "BUDGET_EXHAUSTED" <=> ToolTurns = max_iterations))
    /\ []((pc = "loop" /\ ToolTurns = max_iterations) =>
            ENABLED BudgetExhausted /\ ~ENABLED CallModel)
    /\ [][(pc = "tools" /\ pc' # "interrupted" /\ iteration = max_iterations) =>
            /\ last'.called
            /\ last'.tool_name = message.tool_calls[tc].function.name
            /\ ext' = ext \o last'.ret.ops
            /\ Len(messages') = Len(messages) + 1]_vars
    /\ [][(phase = "RUNNING" /\ phase' = "BUDGET_EXHAUSTED") =>
            UNCHANGED <<messages, model_calls, ext, last>>]_vars

\* C10 witness: the last allowed iteration requested two tool calls, the
\* second one created a branch, and run returned the budget-exhausted text
C10_Witness ==
    /\ phase = "BUDGET_EXHAUSTED"
    /\ max_iterations = 2
    /\ Len(message.tool_calls) = 2
    /\ message.tool_calls[1].id = <<2, 1>>
    /\ last.tool_name = <<"create_branch">>
    /\ Len(last.ret.ops) = 3
    /\ last.ret.ops[3].op = "create_git_ref"
    /\ last.ret.ops[3].outcome = "ok"
    /\ ext[Len(ext)] = last.ret.ops[3]

(***************************************************************************)
(* Order of the calls of a run.                                            *)
(***************************************************************************)
\* the number of tool messages that stand behind the latest assistant message
AnsweredSoFar == Len(messages) - AssistantBefore(Len(messages) + 1)

\* C11: the requests of one assistant turn are executed one at a time in
\* the order of their issue: a tool call is made only while the turn is
\* being worked on, it is the call of the first request not yet answered,
\* and its tool message is appended in the same step; a model call is made
\* only when every request of every earlier turn has its tool message; and
\* while a model call is out no tool is called, while tools are called no
\* model call is made.
C11_SequentialToolCalls ==
    [][/\ (pc = "tools" /\ pc' # "interrupted") =>
             LET a == AssistantBefore(Len(messages) + 1)
                 n == AnsweredSoFar
             IN  /\ a > 0
                 /\ messages[a] = message
                 /\ n < Len(message.tool_calls)
                 /\ \A j \in 1..n : messages[a + j].role = "tool"
                 /\ last'.called
                 /\ last'.tool_name = message.tool_calls[n + 1].function.name
                 /\ Len(messages') = Len(messages) + 1
                 /\ messages'[Len(messages')].role = "tool"
                 /\ messages'[Len(messages')].tool_call_id = message.tool_calls[n + 1].id
                 /\ messages'[Len(messages')].content = last'.ret.result
                 /\ model_calls' = model_calls
                 /\ (pc' = "loop" <=> n + 1 = Len(message.tool_calls))
       /\ (model_calls' # model_calls =>
             /\ pc = "loop"
             /\ pc' = "model"
             /\ messages[Len(messages)].role \in {"user", "tool"}
             /\ \A a \in AssistantAt : HasToolCalls(messages[a]) /\ FullyAnswered(a)
             /\ ext' = ext
             /\ last' = last)
       /\ (pc # "tools" => ext' = ext /\ last' = last)]_vars

\* C11 witness: the second model call is out, after the two requests of the
\* first turn were answered
C11_Witness ==
    /\ pc = "model"
    /\ model_calls = 2
    /\ Len(message.tool_calls) = 2
    /\ Len(messages) = 5
    /\ messages[4].tool_call_id = <<1, 1>>
    /\ messages[5].tool_call_id = <<1, 2>>

(***************************************************************************)
(* The phase of a run.                                                     *)
(***************************************************************************)
Terminal == {"COMPLETED", "BUDGET_EXHAUSTED"}
\* the phase is terminal exactly in the runs that have returned
PhaseByReturn ==
    /\ phase \in {"RUNNING"} \cup Terminal
    /\ (phase \in Terminal <=> pc = "done")
    /\ (phase = "BUDGET_EXHAUSTED" => iteration = max_iterations + 1)
    /\ (phase = "COMPLETED" => iteration <= max_iterations)

\* C12 as stated: every run leaves RUNNING, so every run that is over, in
\* whatever way, is in COMPLETED or BUDGET_EXHAUSTED.
C12_EveryRunLeavesRunning ==
    /\ PhaseByReturn
    /\ (pc \in {"done", "failed", "interrupted"} => phase \in Terminal)

\* C12 as amended: the phase leaves RUNNING at most once, to COMPLETED or
\* to BUDGET_EXHAUSTED, and exactly once in every run that returns; a run
\* that a model failure or an interrupt aborts is over with its phase still
\* RUNNING. A terminal phase never changes, and no model call, no dispatch
\* and no append to the transcript follows it.
C12_PhaseLeavesRunningAtMostOnce ==
    /\ [](/\ PhaseByReturn
          /\ (pc \in {"failed", "interrupted"} => phase = "RUNNING"))
    /\ [][/\ (phase' # phase => phase = "RUNNING" /\ phase' \in Terminal)
          /\ (phase \in Terminal =>
                /\ phase' = phase
                /\ model_calls' = model_calls
                /\ messages' = messages
                /\ sent' = sent
                /\ ext' = ext
                /\ last' = last
                /\ result' = result
                /\ pc' = pc)]_vars

\* C12 witness: a run that completed in its second iteration has exited
C12_Witness ==
    /\ phase = "COMPLETED"
    /\ model_calls = 2
    /\ exit_code = 0

(***************************************************************************)
(* The transcript.                                                         *)
(***************************************************************************)
\* s is a prefix of t
IsPrefix(s, t) == Len(s) <= Len(t) /\ \A i \in DOMAIN s : t[i] = s[i]

\* C13: the transcript is append-only from its seed: until the first model
\* call it is exactly the system message followed by the user message, in
\* every state it starts with these two, and every step leaves the earlier
\* transcript as the unchanged prefix of the later one, longer by at most
\* one message.
C13_AppendOnlyFromSeed ==
    /\ [](/\ Len(messages) >= 2
          /\ messages[1] = [role |-> "system", content |-> SYSTEM_PROMPT]
          /\ messages[2].role = "user"
          /\ messages[2].content =
                get_user_prompt(config.GCP_FUNCTION_NAME, config.GCP_PROJECT_ID)
          /\ (model_calls = 0 => Len(messages) = 2)
          /\ IsPrefix(sent, messages))
    /\ [][/\ IsPrefix(messages, messages')
          /\ Len(messages') <= Len(messages) + 1]_vars

\* C13 witness: the transcript has grown to five messages over its seed
C13_Witness ==
    /\ Len(messages) = 5
    /\ messages[3].role = "assistant"
    /\ messages[4].role = "tool"
    /\ messages[5].role = "assistant"
    /\ phase = "COMPLETED"

(***************************************************************************)
(* Termination.                                                            *)
(***************************************************************************)
\* run is over: it returned, or an exception or an interrupt left it
RunOver == pc \in {"done", "failed", "interrupted"}

\* C14: with a positive bound, and every call of the model and of a handler
\* returning or raising, every run is over at some point and the process
\* has exited; the run that is over returned in COMPLETED or in
\* BUDGET_EXHAUSTED, or a failure of the model call left it, and the model
\* was called at most max_iterations times.
C14_RunTerminates ==
    /\ [](max_iterations >= 1 => <>(RunOver /\ exit_code # NoExit))
    /\ [](/\ model_calls <= max_iterations
          /\ (RunOver => \/ pc = "done" /\ phase \in Terminal
                         \/ pc = "failed" /\ model_calls = iteration /\ messages = sent))

\* C14 witness: a run with the largest bound used every turn of it and ended
\* with the model's final answer
C14_Witness ==
    /\ max_iterations = MaxBound
    /\ model_calls = MaxBound
    /\ phase = "COMPLETED"
    /\ exit_code = 0

(***************************************************************************)
(* The exit code of the process.                                           *)
(***************************************************************************)
\* C15: the process exits with code 0 exactly when run returned, in
\* COMPLETED or in BUDGET_EXHAUSTED, and with a code other than 0 when an
\* interrupt or a failure of the model call ended run; the code is set once,
\* after run is over, and every run that is over can exit.
C15_ExitCode ==
    /\ [](/\ exit_code \in {NoExit, 0, 1}
          /\ (exit_code # NoExit => pc \in {"done", "failed", "interrupted"})
          /\ (exit_code = 0 <=> exit_code # NoExit /\ pc = "done" /\ phase \in Terminal)
          /\ (exit_code # NoExit /\ pc \in {"failed", "interrupted"} =>
                exit_code = 1 /\ phase = "RUNNING")
          /\ (pc \in {"done", "failed", "interrupted"} /\ exit_code = NoExit =>
                ENABLED (Next /\ exit_code' # exit_code)))
    /\ [][exit_code' # exit_code =>
            /\ exit_code = NoExit
            /\ pc' = pc
            /\ messages' = messages]_vars

\* C15 witness: an interrupt cut the tool calls of a turn short and the
\* process has exited with code 1
C15_Witness ==
    /\ pc = "interrupted"
    /\ exit_code = 1
    /\ HasToolCalls(message)
    /\ AnsweredSoFar = 1
    /\ Len(message.tool_calls) = 2

(***************************************************************************)
(* Interrupts.                                                             *)
(***************************************************************************)
\* the requests of the latest assistant message answered so far are its
\* first ones, in their order
AnsweredPrefix ==
    LET a == AssistantBefore(Len(messages) + 1) IN
    a > 0 /\ HasToolCalls(messages[a]) =>
        /\ AnsweredSoFar <= Len(messages[a].tool_calls)
        /\ \A j \in 1..AnsweredSoFar :
              /\ messages[a + j].role = "tool"
              /\ messages[a + j].tool_call_id = messages[a].tool_calls[j].id

\* C16 as stated: an interrupt ends the run between two iterations only:
\* in the interrupted run every request of every assistant message has its
\* tool message, and no model call is out.
C16_InterruptBetweenIterations ==
    pc = "interrupted" =>
        /\ \A a \in AssistantAt : FullyAnswered(a)
        /\ model_calls = iteration - 1

\* C16 as amended: an interrupt ends the run wherever it arrives, between
\* two iterations, during a model call or within a turn. The requests of
\* the latest assistant message that were answered before it are the first
\* ones in order, the others stay without tool message, and those of every
\* earlier assistant message are all answered. The interrupt leaves the
\* transcript as it is and takes back no call of an external service, the
\* phase stays RUNNING, and afterwards nothing changes but the exit code.
C16_InterruptAnywhere ==
    /\ [](pc = "interrupted" =>
            /\ phase = "RUNNING"
            /\ result = <<>>
            /\ AnsweredPrefix
            /\ \A a \in AssistantAt :
                  a < AssistantBefore(Len(messages) + 1) => FullyAnswered(a))
    /\ [][/\ (pc # "interrupted" /\ pc' = "interrupted" =>
                /\ pc \in {"loop", "model", "tools"}
                /\ messages' = messages
                /\ IsPrefix(ext, ext')
                /\ (pc # "tools" => ext' = ext)
                /\ exit_code' = exit_code)
          /\ (pc = "interrupted" =>
                /\ pc' = pc
                /\ messages' = messages
                /\ ext' = ext
                /\ exit_code' = 1)]_vars

\* C16 witness: the interrupt came while the handler of the second request
\* of a turn was running: one tool message, and the calls the second handler
\* had made of the repository service are made
C16_Witness ==
    /\ pc = "interrupted"
    /\ exit_code = 1
    /\ HasToolCalls(message)
    /\ Len(message.tool_calls) = 2
    /\ AnsweredSoFar = 1
    /\ ~FullyAnswered(AssistantBefore(Len(messages) + 1))
    /\ Len(ext) > Len(last.ret.ops)
    /\ ext[Len(ext)].outcome = "ok"

(***************************************************************************)
(* The requests to the model.                                              *)
(***************************************************************************)
\* C17: every iteration makes exactly one call of the model: the k-th call
\* is made in iteration k and the loop moves on only after it. The call
\* hands over the whole transcript as it is at that moment and the whole
\* list of tool contracts, one for each tool the dispatcher has a handler
\* for, and the same list in every call.
C17_OneFullRequestPerIteration ==
    /\ [](/\ (pc \in {"model", "tools"} => model_calls = iteration)
          /\ (pc = "loop" => model_calls = iteration - 1)
          /\ (model_calls >= 1 =>
                /\ tools = TOOL_SCHEMAS
                /\ {tools[i].name : i \in DOMAIN tools} = HandlerNames
                /\ Len(tools) = Cardinality(HandlerNames))
          /\ (pc = "model" => sent = messages))
    /\ [][/\ (model_calls' # model_calls =>
                /\ model_calls' = model_calls + 1
                /\ sent' = messages
                /\ messages' = messages
                /\ tools' = TOOL_SCHEMAS
                /\ (model_calls >= 1 => tools' = tools))
          /\ (model_calls' = model_calls => sent' = sent /\ tools' = tools)
          /\ (iteration' # iteration =>
                /\ iteration' = iteration + 1
                /\ model_calls = iteration
                /\ model_calls' = model_calls)]_vars

\* C17 witness: the second call is out with the four messages of that
\* moment and the tool contracts
C17_Witness ==
    /\ pc = "model"
    /\ model_calls = 2
    /\ Len(sent) = 4
    /\ sent[4].role = "tool"
    /\ Len(tools) = 7

(***************************************************************************)
(* commit_file_change.                                                     *)
(***************************************************************************)
\* the handler made the external call op
Did(ops, op) == \E i \in DOMAIN ops : ops[i].op = op
\* the text is the JSON object of a success payload
IsSuccessPayload(t) ==
    /\ Len(t) >= 5
    /\ SubSeq(t, 1, 4) = <<"{", DQ, "success", DQ>>
    /\ t[Len(t)] = "}"

\* C18: commit_file_change chooses by whether the file is on the branch.
\* When get_contents finds the file the handler calls update_file and never
\* create_file, also when update_file fails; when get_contents reports that
\* there is no such file it calls create_file and never update_file; and
\* what it did is reported as a success payload or as an error payload.
C18_CreateOrUpdateByExistence ==
    LET ops == last.ret.ops IN
    (/\ last.called
     /\ last.tool_name = <<"commit_file_change">>
     /\ Len(ops) >= 2
     /\ ops[1].outcome = "ok") =>
        /\ ops[2].op = "get_contents"
        /\ (ops[2].outcome = "ok" =>
              Did(ops, "update_file") /\ ~Did(ops, "create_file"))
        /\ (ops[2].outcome = "api_error" =>
              Did(ops, "create_file") /\ ~Did(ops, "update_file"))
        /\ (IsSuccessPayload(last.ret.result) \/ IsErrorPayload(last.ret.result))

(***************************************************************************)
(* The transcript at a call of the model.                                  *)
(***************************************************************************)
\* ms starts with the system and the user message, every later message is an
\* assistant message with requests or a tool message, every assistant
\* message with N requests is followed at once by exactly N tool messages,
\* the j-th carrying the id of the j-th request, and then by the next
\* assistant message or by nothing
WellFormed(ms) ==
    /\ Len(ms) >= 2
    /\ ms[1].role = "system"
    /\ ms[2].role = "user"
    /\ \A i \in 3..Len(ms) : ms[i].role \in {"assistant", "tool"}
    /\ (Len(ms) >= 3 => ms[3].role = "assistant")
    /\ \A a \in 3..Len(ms) : ms[a].role = "assistant" =>
          /\ HasToolCalls(ms[a])
          /\ LET N == Len(ms[a].tool_calls) IN
             /\ a + N <= Len(ms)
             /\ \A j \in 1..N :
                   /\ ms[a + j].role = "tool"
                   /\ ms[a + j].tool_call_id = ms[a].tool_calls[j].id
             /\ (a + N < Len(ms) => ms[a + N + 1].role = "assistant")

\* C19: at every call of the model the transcript, which is what the call
\* hands over, is well-formed: no request of it is left unanswered.
C19_WellFormedAtModelCall ==
    /\ [](pc = "model" => sent = messages /\ WellFormed(sent))
    /\ [][model_calls' # model_calls => WellFormed(messages) /\ sent' = messages]_vars

\* C19 witness: the second call of the model is out and hands over the turn
\* of two requests with its two answers
C19_Witness ==
    /\ pc = "model"
    /\ model_calls = 2
    /\ Len(sent) = 5
    /\ Len(sent[3].tool_calls) = 2
    /\ sent[4].tool_call_id = sent[3].tool_calls[1].id
    /\ sent[5].tool_call_id = sent[3].tool_calls[2].id
    /\ IsErrorPayload(sent[5].content)

(***************************************************************************)
(* What run returns.                                                       *)
(***************************************************************************)
\* C20: whenever run returns, it returns a text that is not empty: the
\* content of the final response, the text "Agent finished without a
\* summary." when that content is empty or None, or the text of the
\* exhausted budget; in COMPLETED the text returned is the content of the
\* last message of the transcript, an assistant message.
C20_ReturnsNonEmptyText ==
    /\ (pc = "done" <=> result # <<>>)
    /\ (phase = "COMPLETED" =>
          /\ ~HasToolCalls(message)
          /\ messages[Len(messages)].role = "assistant"
          /\ messages[Len(messages)].content = result
          /\ IF "content" \in DOMAIN message /\ message.content # <<>>
             THEN result = message.content
             ELSE result = <<"Agent finished without a summary.">>)
    /\ (phase = "BUDGET_EXHAUSTED" =>
          result = <<"Agent reached maximum iterations without completing the task.">>)

\* C20 witness: the final response of the second iteration came with the
\* empty text as its content, and run returned the fallback text
C20_Witness ==
    /\ phase = "COMPLETED"
    /\ model_calls = 2
    /\ "content" \in DOMAIN message
    /\ message.content = <<>>
    /\ result = <<"Agent finished without a summary.">>
    /\ messages[Len(messages)].content = result

(***************************************************************************)
(* The tool contracts and the handlers table.                              *)
(***************************************************************************)
\* the text is the payload dispatch gives for a name without handler
IsUnknownToolPayload(t) ==
    /\ IsErrorPayload(t)
    /\ Len(ErrorOf(t)) >= 1
    /\ ErrorOf(t)[1] = "Unknown tool: "

\* C21: the names of the tool contracts are the names dispatch has a
\* handler for, and no two contracts have the same name; so a call of
\* dispatch with the name of a contract reaches its handler and never gives
\* the unknown-tool payload, and a call that reaches a handler has the name
\* of a contract.
C21_ContractsMatchHandlers ==
    /\ SchemaNames = HandlerNames
    /\ \A i, j \in DOMAIN TOOL_SCHEMAS :
          TOOL_SCHEMAS[i].name = TOOL_SCHEMAS[j].name => i = j
    /\ (last.called =>
          /\ (last.tool_name \in SchemaNames =>
                /\ last.ret.invoked
                /\ ~IsUnknownToolPayload(last.ret.result))
          /\ (last.tool_name \notin SchemaNames =>
                /\ ~last.ret.invoked
                /\ IsUnknownToolPayload(last.ret.result)))

\* C21 witness: a call with the name of the last contract reached its
\* handler, which opened the pull request
C21_Witness ==
    /\ last.called
    /\ last.tool_name = TOOL_SCHEMAS[Len(TOOL_SCHEMAS)].name
    /\ last.ret.invoked
    /\ ~last.ret.caught
    /\ IsSuccessPayload(last.ret.result)
    /\ Did(last.ret.ops, "create_pull")

(***************************************************************************)
(* Required fields and defaults.                                           *)
(***************************************************************************)
\* the fields the lambda of tool_name reads, and those it reads as args["k"]
ReadKeys(tool_name) ==
    {HandlerReads(tool_name)[j].k : j \in DOMAIN HandlerReads(tool_name)}
ReadWithoutDefault(tool_name) ==
    {HandlerReads(tool_name)[j].k :
        j \in {n \in DOMAIN HandlerReads(tool_name) : HandlerReads(tool_name)[n].required}}

\* the value a handler passed on for the field k of its tool, where the
\* call went far enough to pass it on: v
PassedOn(k, v) ==
    LET ops == last.ret.ops
        name == last.tool_name
    IN  Len(ops) >= 2 =>
        CASE name = <<"query_logs">> /\ k = "limit" -> ops[2].a[2] = v
          [] name = <<"list_log_entries">> /\ k = "limit" -> ops[2].a[2] = v
          [] name = <<"list_log_entries">> /\ k = "hours_ago" ->
                Contains(ops[2].a[1], <<"now-">> \o v \o <<"h">>)
          [] name = <<"list_repo_files">> /\ k = "path" -> ops[2].a[1] = v
          [] name = <<"get_file_content">> /\ k = "ref" -> ops[2].a[2] = v
          [] name = <<"create_pull_request">> /\ k = "base_branch" -> ops[2].a[4] = v
          [] OTHER -> FALSE

\* the defaults the contracts declare
DeclaredDefault ==
    [limit |-> <<"50">>, hours_ago |-> <<"24">>, path |-> <<>>,
     ref |-> <<"main">>, base_branch |-> <<"main">>]

\* C22: for every tool the required fields of its contract are the fields
\* its handler reads without default, and the other fields of the contract
\* those it reads with one. A call with a mapping that has all required
\* fields gives no missing-argument failure; a call with a mapping that
\* lacks a required field gives the handler-failure payload naming the
\* first field missing, and no external call is made; a field with default
\* that is left out is passed on as its declared default, one that is
\* given as given.
C22_RequiredAndDefaults ==
    /\ \A i \in DOMAIN TOOL_SCHEMAS :
          /\ TOOL_SCHEMAS[i].required = ReadWithoutDefault(TOOL_SCHEMAS[i].name)
          /\ TOOL_SCHEMAS[i].properties = ReadKeys(TOOL_SCHEMAS[i].name)
    /\ (last.called /\ last.tool_name \in HandlerNames /\ last.arguments.type = "dict" =>
          LET name == last.tool_name
              given == DOMAIN last.arguments.items
              missing == RequiredOf(name) \ given
          IN  /\ (missing = {} =>
                    /\ last.ret.exc # "KeyError"
                    /\ Len(last.ret.ops) >= 1
                    /\ (last.ret.caught => AnyOpFailed(last.ret.ops)))
              /\ (missing # {} =>
                    /\ last.ret.caught
                    /\ last.ret.exc = "KeyError"
                    /\ last.ret.ops = <<>>
                    /\ ext = <<>>
                    /\ \E k \in missing :
                          last.ret.result =
                              <<"{", DQ, "error", DQ, ": ", DQ, "Tool '">> \o name \o
                              <<"' failed: ", "'", k, "'", DQ, "}">>)
              /\ \A k \in PropertiesOf(name) \ RequiredOf(name) :
                    /\ k \in DOMAIN DeclaredDefault
                    /\ (missing = {} =>
                          PassedOn(k, IF k \in given THEN last.arguments.items[k]
                                      ELSE DeclaredDefault[k])))

\* C22 witness: list_log_entries was called with its required field only
\* and asked the log service for 50 entries of the last 24 hours
C22_Witness ==
    /\ last.called
    /\ last.tool_name = <<"list_log_entries">>
    /\ last.arguments.type = "dict"
    /\ DOMAIN last.arguments.items = {"function_name"}
    /\ Len(last.ret.ops) = 2
    /\ last.ret.ops[2].a[2] = <<"50">>
    /\ Contains(last.ret.ops[2].a[1], <<"now-", "24", "h">>)
    /\ ~last.ret.caught

(***************************************************************************)
(* The execution context.                                                  *)
(***************************************************************************)
\* the calls that opened the repository, by their place in ext
RepoOpened == {i \in DOMAIN ext : ext[i].op = "get_repo"}

\* C23: the configuration mapping is never modified after initialization:
\* it is what load_config gave in every state, no step of a run changes
\* it, whether a model call, a dispatch or a handler, and whether that
\* succeeds or fails, and every handler that opened the repository found
\* the same target in it.
C23_ContextNeverModified ==
    /\ [](/\ config = load_config
          /\ \A i \in RepoOpened : ext[i].a = <<load_config.GITHUB_REPO>>)
    /\ [][config' = config]_vars

\* C23 witness: two tool calls have opened the repository, one of them
\* failed, and the model is being called again
C23_Witness ==
    /\ pc = "model"
    /\ model_calls = 2
    /\ Cardinality(RepoOpened) = 2
    /\ AnyOpFailed(ext)
    /\ config = load_config

(***************************************************************************)
(* The credential file.                                                    *)
(***************************************************************************)
\* C24: over the calls of _ensure_credentials_file in one process a file
\* is created, and one cleanup registered for it, only when no file
\* created before still exists: at any time at most one credential file of
\* the process exists, every file created has its cleanup registered, and
\* a file that exists is the recorded one, which the environment names.
C24_AtMostOneLiveFile ==
    /\ Cardinality(proc.files) <= 1
    /\ Len(proc.atexit) = proc.created
    /\ \A f \in proc.files :
          f = proc.temp_credentials_path /\ f = proc.environ

=============================================================================
